---- MODULE Spec2Model ----
(***************************************************************************)
(* Crawl-and-ingest pipeline of geopolitics-statistics-map.                *)
(*                                                                         *)
(* CrawlerService.crawlAllSources drives seven site extractors over one    *)
(* shared browser, asks the article repository which URLs it already has,  *)
(* and hands every new candidate to NewsService.createNews, which writes   *)
(* the body to the content store (S3) and then inserts the metadata record *)
(* (MongoDB, unique index on url).  Every await of the code is a step of   *)
(* the model, so that two cycles (the cron job and the manual trigger) can *)
(* interleave exactly where the code can.  The read operations of          *)
(* NewsService, the migration script migrate-to-s3.ts and the title, body  *)
(* and date extraction of an article page have specifications of their own.*)
(***************************************************************************)
EXTENDS Integers, Sequences, FiniteSets, TLC

\* ------------------------------------------------------------------ bounds
\* Crawl cycles started in one behaviour when cycles run one after the other.
MaxRuns == 2

\* Environment events (injected faults and origin-site page edits) in one
\* behaviour of sequential cycles.
MaxEnvEvents == 1

\* Environment faults injected in one behaviour of overlapping cycles.
MaxFaultsOverlap == 1

\* Bodies are drawn with lengths 1..MaxOver and within MaxOver of the
\* excerpt limit on either side.
MaxOver == 3

\* --------------------------------------------------------- program constants
\* The two entry points into crawlAllSources: the cron job and POST /scheduler/crawl.
Cycles == {"scheduled", "manual"}

\* The extractors in the order crawlAllSources awaits them.
SourceNames ==
  <<"BBC World", "Al Jazeera", "Foreign Policy", "The Diplomat",
    "AP News", "The Guardian", "Euronews">>

NumSources == Len(SourceNames)

\* Extractors 1..4 are injected services that receive the `browser` local;
\* crawlAPNews, crawlGuardian and crawlEuronews call this.initBrowser() themselves.
HandedBrowser(s) == s <= 4

\* ------------------------------------------------------------ origin sites
\* A discovered href: root-relative ("/p") or absolute ("https://origin/p").
Rel(p) == [abs |-> FALSE, origin |-> 0, path |-> p]
Abs(o, p) == [abs |-> TRUE, origin |-> o, path |-> p]

\* An extractor that emits a root-relative href as it found it (no origin).
ResolveKeepsRelative(s, href) ==
  IF href.abs THEN <<href.origin, href.path>> ELSE <<0, href.path>>

\* if (articleUrl.startsWith('/')) articleUrl = new URL(articleUrl, base).href
\* A URL is <<origin, path>>; the base origin of source s is s.
Resolve(s, href) ==
  IF href.abs THEN <<href.origin, href.path>> ELSE <<s, href.path>>

NoLinks == [s \in 1..NumSources |-> <<>>]

\* BBC lists two articles, Foreign Policy one.
WorldThree ==
  [NoLinks EXCEPT ![1] = <<Rel("a"), Rel("b")>>, ![3] = <<Rel("a")>>]

\* Foreign Policy lists the same article under a relative and an absolute href.
WorldSameUrl ==
  [NoLinks EXCEPT ![3] = <<Rel("a"), Abs(3, "a"), Rel("b")>>]

\* BBC lists two articles (used when two cycles overlap).
WorldTwo == [NoLinks EXCEPT ![1] = <<Rel("a"), Rel("b")>>]

\* What an article page can yield for (title, body).
PageContents ==
  { [title |-> "t1", body |-> "b1"],
    [title |-> "t2", body |-> "b2"],
    [title |-> "",   body |-> "b1"],
    [title |-> "t1", body |-> ""] }

FirstContent == [title |-> "t1", body |-> "b1"]

UrlsOf(w) ==
  UNION { { Resolve(s, w[s][i]) : i \in 1..Len(w[s]) } : s \in 1..NumSources }

VARIABLES
  site,          \* origin sites: source -> hrefs its landing page lists
  pages,         \* origin sites: url -> what the article page yields now
  edits,         \* page edits made so far
  faults,        \* environment faults injected so far
  cfg,           \* scenario: event and run budgets, whether cycles may overlap
  runs,          \* cycles started so far
  thisBrowser,   \* CrawlerService.browser: 0 is null, else a browser id
  open,          \* browsers launched and not closed
  nBrowsers,     \* browsers launched so far (ids 1..nBrowsers)
  db,            \* article repository: records in insertion order
  blobs,         \* content store: blobs[key] is the body stored under key
  pc,            \* per cycle: where crawlAllSources is suspended
  browser,       \* per cycle: the `browser` local of crawlAllSources
  srcBrowser,    \* per cycle: the browser the running extractor uses
  si,            \* per cycle: extractor being run (0 before the first)
  li,            \* per cycle: index into the extractor's articleLinks
  found,         \* per cycle: articles extracted so far (allArticles)
  existingUrls,  \* per cycle: result of findExistingUrls
  queries,       \* per cycle: calls of findExistingUrls made in this run
  pidx,          \* per cycle: position of the persist loop in allArticles
  savedCount,    \* per cycle: savedCount
  contentKey,    \* per cycle: contentKey inside createNews (0 is undefined)
  errLog,        \* per cycle: sources whose extractor logged "Error in ... crawler"
  launchedBy,    \* per cycle: browsers this run launched
  storageFault,  \* per cycle: a repository or content-store call failed in this run
  blobFailed,    \* per cycle: blob writes that failed in this run: the url, and
                 \* whether the repository held a row for it at that moment
  rejected,      \* per cycle: urls whose insert the unique index rejected in this run
  reply,         \* what the last repository read operation returned
  mig,           \* the migration script: where it is, the rows it selected
  probe          \* an article page handed to an extractor, and what it extracted

shared == <<site, pages, edits, faults, cfg, runs,
            thisBrowser, open, nBrowsers, db, blobs>>
locals == <<pc, browser, srcBrowser, si, li, found, existingUrls, queries, pidx,
            savedCount, contentKey, errLog, launchedBy, storageFault,
            blobFailed, rejected>>
aux == <<reply, mig, probe>>
vars == <<shared, locals, aux>>

DbUrls == { db[i].url : i \in 1..Len(db) }

Running(c) == pc[c] \notin {"idle", "returned", "threw"}

\* The environment can act (inject a fault, edit a page) while the budget lasts.
CanAct == faults + edits < cfg.envCap

CanFault == CanAct

\* An excerpt that also truncates a body of exactly the limit.
ExcerptAtLimit(body) ==
  IF Len(body) >= 200 THEN SubSeq(body, 1, 200) \o "..." ELSE ""

\* newsData.content.length > 200 ? newsData.content.substring(0, 200) + '...' : ''
ExcerptLimit == 200

Excerpt(body) ==
  IF Len(body) > ExcerptLimit THEN SubSeq(body, 1, ExcerptLimit) \o "..." ELSE ""

\* The list extractCountries filters.
Countries ==
  <<"United States", "China", "Russia", "India", "Japan", "South Korea",
    "North Korea", "UK", "France", "Germany", "Israel", "Iran",
    "Saudi Arabia", "Ukraine", "Taiwan", "Canada", "Australia", "Brazil",
    "Mexico", "Egypt", "South Africa", "Nigeria", "Pakistan", "Indonesia">>

UpperCase == "ABCDEFGHIJKLMNOPQRSTUVWXYZ"
LowerCase == "abcdefghijklmnopqrstuvwxyz"

\* The character at position i of text, as a one-character string.
CharAt(text, i) == SubSeq(text, i, i)

\* The lower-case letter of every upper-case letter.
LowerOfUpper ==
  LET at == [i \in 1..Len(UpperCase) |-> CharAt(UpperCase, i)]
  IN [ch \in { at[i] : i \in DOMAIN at } |->
        CharAt(LowerCase, CHOOSE i \in DOMAIN at : at[i] = ch)]

\* toLowerCase on one character.
LowerChar(ch) == IF ch \in DOMAIN LowerOfUpper THEN LowerOfUpper[ch] ELSE ch

RECURSIVE ToLowerCase(_)
\* String.prototype.toLowerCase
ToLowerCase(text) ==
  IF Len(text) <= 1 THEN LowerChar(text)
  ELSE LET half == Len(text) \div 2
       IN ToLowerCase(SubSeq(text, 1, half))
            \o ToLowerCase(SubSeq(text, half + 1, Len(text)))

\* String.prototype.includes
Includes(text, part) ==
  \E i \in 1..(Len(text) - Len(part) + 1) :
    SubSeq(text, i, i + Len(part) - 1) = part

\* A matcher that compares without lowering the case.
ExtractCountriesCaseSensitive(text) ==
  SelectSeq(Countries, LAMBDA country : Includes(text, country))

\* country.toLowerCase() of every listed country.
LoweredCountry ==
  [country \in { Countries[i] : i \in 1..Len(Countries) } |->
     ToLowerCase(country)]

\* countries.filter((country) => text.toLowerCase().includes(country.toLowerCase()))
ExtractCountries(text) ==
  LET lowered == ToLowerCase(text)
  IN SelectSeq(Countries,
               LAMBDA country : Includes(lowered, LoweredCountry[country]))

\* A tagger that also files every matched country as a region.
TaggedWithRegions(article) ==
  [title |-> article.title, url |-> article.url, content |-> article.content,
   source |-> article.source,
   geopoliticalData |->
     [countries |-> ExtractCountries(article.content),
      regions |-> ExtractCountries(article.content),
      organizations |-> <<>>, events |-> <<>>]]

\* The persist loop sets article.geopoliticalData before it calls createNews.
Tagged(article) ==
  [title |-> article.title, url |-> article.url, content |-> article.content,
   source |-> article.source,
   geopoliticalData |->
     [countries |-> ExtractCountries(article.content),
      regions |-> <<>>, organizations |-> <<>>, events |-> <<>>]]

\* The record createNews builds.  `body` is not a stored field: it remembers
\* the body the record was created from, for the statements below.
NewsDoc(article, key) ==
  [title |-> article.title, content |-> Excerpt(article.content),
   contentKey |-> key, source |-> article.source, url |-> article.url,
   geopoliticalData |-> article.geopoliticalData,
   body |-> article.content]

\* ------------------------------------------------------------------- Init
NoCycle(v) == [c \in Cycles |-> v]

\* No read operation has been called.
NoReply == [op |-> "none", result |-> <<>>]

\* The migration script is not running and has not run.
NotMigrating ==
  [pc |-> "idle", selected |-> <<>>, i |-> 0, key |-> 0, raw |-> FALSE,
   runs |-> 0, migratedCount |-> 0, errorCount |-> 0]

\* No page is being looked at outside a crawl cycle.
NoProbe ==
  [page |-> [headings |-> <<>>, paragraphs |-> <<>>, dates |-> <<>>],
   done |-> FALSE, pushed |-> FALSE,
   article |-> [title |-> "", content |-> "",
                publishedAt |-> [valid |-> TRUE, time |-> <<0, 0, 0>>]]]

InitRepository(scenarios, config) ==
  /\ \E sc \in scenarios :
        /\ site = sc.site
        /\ db = sc.db
        /\ blobs = sc.blobs
        /\ pages = [u \in UrlsOf(sc.site) |-> sc.first]
  /\ edits = 0
  /\ faults = 0
  /\ cfg = config
  /\ runs = 0
  /\ thisBrowser = 0
  /\ open = {}
  /\ nBrowsers = 0
  /\ pc = NoCycle("idle")
  /\ browser = NoCycle(0)
  /\ srcBrowser = NoCycle(0)
  /\ si = NoCycle(0)
  /\ li = NoCycle(0)
  /\ found = NoCycle(<<>>)
  /\ existingUrls = NoCycle({})
  /\ queries = NoCycle(0)
  /\ pidx = NoCycle(0)
  /\ savedCount = NoCycle(0)
  /\ contentKey = NoCycle(0)
  /\ errLog = NoCycle(<<>>)
  /\ launchedBy = NoCycle({})
  /\ storageFault = NoCycle(FALSE)
  /\ blobFailed = NoCycle({})
  /\ rejected = NoCycle({})
  /\ reply = NoReply
  /\ mig = NotMigrating

InitWith(scenarios, config) ==
  /\ InitRepository(scenarios, config)
  /\ probe = NoProbe

\* The repository and the content store as an earlier cycle left them, in
\* which only the Foreign Policy article was extracted and stored.
StoredForeignPolicy ==
  [site |-> WorldThree,
   db |-> <<NewsDoc(Tagged([title |-> "t1", url |-> <<3, "a">>,
                             content |-> "b1",
                             source |-> "Foreign Policy"]), 1)>>,
   blobs |-> <<"b1">>,
   first |-> FirstContent]

\* An empty repository; every article page of w yields `content` at first.
FreshYielding(w, content) ==
  [site |-> w, db |-> <<>>, blobs |-> <<>>, first |-> content]

Fresh(w) == FreshYielding(w, FirstContent)

\* Cycles run one after the other (the cron job alone, or a trigger between two jobs).
Init ==
  InitWith({StoredForeignPolicy, Fresh(WorldSameUrl), Fresh(WorldThree)},
           [envCap |-> MaxEnvEvents, runCap |-> MaxRuns, mayOverlap |-> FALSE])

\* A manual trigger arrives while the scheduled cycle is in progress: each of
\* the two entry points starts one cycle.
InitOverlap ==
  InitWith({Fresh(WorldTwo)},
           [envCap |-> MaxFaultsOverlap, runCap |-> Cardinality(Cycles),
            mayOverlap |-> TRUE])

\* Foreign Policy lists one article.
WorldOne == [NoLinks EXCEPT ![3] = <<Rel("a")>>]

RECURSIVE Rep(_, _)
\* The character ch repeated n times.
Rep(ch, n) ==
  IF n = 0 THEN ""
  ELSE IF n % 2 = 0 THEN LET half == Rep(ch, n \div 2) IN half \o half
  ELSE Rep(ch, n - 1) \o ch

BodyLengths ==
  (1..MaxOver) \cup ((ExcerptLimit - MaxOver)..(ExcerptLimit + MaxOver))

\* Article bodies of the lengths above: the part within the excerpt limit
\* made of one character, the part beyond it of another (or the same).
Bodies ==
  { IF n <= ExcerptLimit
    THEN Rep(f, n)
    ELSE Rep(f, ExcerptLimit) \o Rep(g, n - ExcerptLimit) :
      n \in BodyLengths, f \in {"a", "."}, g \in {"z", "."} }

\* One cycle after the other, without environment faults, over a site whose
\* single article has the body b.
InitYielding(bodies) ==
  InitWith({ FreshYielding(WorldOne, [title |-> "t1", body |-> b]) :
               b \in bodies },
           [envCap |-> 0, runCap |-> MaxRuns, mayOverlap |-> FALSE])

\* The article has a body of any of the lengths around the excerpt limit.
InitExcerpt == InitYielding(Bodies)

\* Article bodies that name listed countries in various cases, one inside a
\* longer word, and none at all.
CountryBodies ==
  { "CHINA and Russia met", "china warns FRANCE", "talks in Ukraine",
    "the uk votes", "South Korea, north korea", "a trip to Indiana",
    "nothing happened", "Chin a and Rus sia", "IRAN" }

\* The article has a body naming some countries.
InitTags == InitYielding(CountryBodies)

\* ---------------------------------------------------------------- actions
\* An awaited call fails: either the environment injects a fault (budgeted),
\* or the browser it needs has been closed, which makes it fail for certain.
Inject == CanFault /\ faults' = faults + 1

\* handleCrawlJob / startCrawling call crawlAllSources; nothing prevents a
\* second call while one is in progress.
StartCycle(c) ==
  /\ ~Running(c)
  /\ runs < cfg.runCap
  /\ cfg.mayOverlap \/ \A d \in Cycles : ~Running(d)
  /\ runs' = runs + 1
  /\ pc' = [pc EXCEPT ![c] = "init"]
  /\ browser' = [browser EXCEPT ![c] = 0]
  /\ srcBrowser' = [srcBrowser EXCEPT ![c] = 0]
  /\ si' = [si EXCEPT ![c] = 0]
  /\ li' = [li EXCEPT ![c] = 0]
  /\ found' = [found EXCEPT ![c] = <<>>]
  /\ existingUrls' = [existingUrls EXCEPT ![c] = {}]
  /\ queries' = [queries EXCEPT ![c] = 0]
  /\ pidx' = [pidx EXCEPT ![c] = 0]
  /\ savedCount' = [savedCount EXCEPT ![c] = 0]
  /\ contentKey' = [contentKey EXCEPT ![c] = 0]
  /\ errLog' = [errLog EXCEPT ![c] = <<>>]
  /\ launchedBy' = [launchedBy EXCEPT ![c] = {}]
  /\ storageFault' = [storageFault EXCEPT ![c] = FALSE]
  /\ blobFailed' = [blobFailed EXCEPT ![c] = {}]
  /\ rejected' = [rejected EXCEPT ![c] = {}]
  /\ UNCHANGED <<aux, site, pages, edits, faults, cfg, thisBrowser, open,
                 nBrowsers, db, blobs>>

\* initBrowser has returned browser b to its caller: crawlAllSources (line 39),
\* which goes on to call crawlBBC(browser), or a self-initialising extractor.
BrowserReturned(c, b) ==
  IF pc[c] \in {"init", "launchOrch"}
  THEN /\ browser' = [browser EXCEPT ![c] = b]
       /\ si' = [si EXCEPT ![c] = 1]
       /\ srcBrowser' = [srcBrowser EXCEPT ![c] = b]
       /\ pc' = [pc EXCEPT ![c] = "landing"]
  ELSE /\ srcBrowser' = [srcBrowser EXCEPT ![c] = b]
       /\ pc' = [pc EXCEPT ![c] = "landing"]
       /\ UNCHANGED <<browser, si>>

\* initBrowser: if (!this.browser) this.browser = await chromium.launch(...)
InitBrowser(c) ==
  /\ pc[c] \in {"init", "srcInit"}
  /\ IF thisBrowser # 0
     THEN BrowserReturned(c, thisBrowser)
     ELSE /\ pc' = [pc EXCEPT ![c] =
                      IF pc[c] = "init" THEN "launchOrch" ELSE "launchSrc"]
          /\ UNCHANGED <<browser, si, srcBrowser>>
  /\ UNCHANGED <<aux, shared, li, found, existingUrls, pidx, savedCount,
                 contentKey, errLog, launchedBy, storageFault, blobFailed,
                 rejected, queries>>

\* An orchestrator that stops extracting after the first extractor.
LastExtractorIsFirst(c) == si[c] >= 1

\* crawlEuronews, the last extractor awaited (line 62), is the one returning.
LastExtractor(c) == si[c] = NumSources

\* The extractor si[c] has returned its articles; crawlAllSources awaits the
\* next extractor, or, after the last one, concatenates and asks for existing urls.
AfterExtractor(c) ==
  /\ li' = [li EXCEPT ![c] = 0]
  /\ IF ~LastExtractor(c)
     THEN /\ si' = [si EXCEPT ![c] = si[c] + 1]
          /\ pc' = [pc EXCEPT ![c] =
                      IF HandedBrowser(si[c] + 1) THEN "landing" ELSE "srcInit"]
          /\ srcBrowser' = [srcBrowser EXCEPT ![c] =
                      IF HandedBrowser(si[c] + 1) THEN browser[c] ELSE 0]
     ELSE /\ pc' = [pc EXCEPT ![c] = "exists"]
          /\ srcBrowser' = [srcBrowser EXCEPT ![c] = 0]
          /\ UNCHANGED si

\* chromium.launch resolves: the field is assigned, whatever it held meanwhile.
LaunchDone(c) ==
  /\ pc[c] \in {"launchOrch", "launchSrc"}
  /\ nBrowsers' = nBrowsers + 1
  /\ open' = open \cup {nBrowsers + 1}
  /\ thisBrowser' = nBrowsers + 1
  /\ launchedBy' = [launchedBy EXCEPT ![c] = @ \cup {nBrowsers + 1}]
  /\ BrowserReturned(c, nBrowsers + 1)
  /\ UNCHANGED <<aux, site, pages, edits, faults, cfg, runs, db, blobs, li, found,
                 existingUrls, pidx, savedCount, contentKey, errLog,
                 storageFault, blobFailed, rejected, queries>>

\* chromium.launch rejects.  At line 39 this lands in the catch of
\* crawlAllSources; inside an extractor it lands in the extractor's catch.
LaunchFail(c) ==
  /\ pc[c] \in {"launchOrch", "launchSrc"}
  /\ Inject
  /\ IF pc[c] = "launchOrch"
     THEN /\ pc' = [pc EXCEPT ![c] = "finally"]
          /\ UNCHANGED <<si, li, srcBrowser, errLog>>
     ELSE /\ errLog' = [errLog EXCEPT ![c] = Append(@, si[c])]
          /\ AfterExtractor(c)
  /\ UNCHANGED <<aux, site, pages, edits, cfg, runs, thisBrowser, open, nBrowsers,
                 db, blobs, browser, found, existingUrls, pidx, savedCount,
                 contentKey, launchedBy, storageFault, blobFailed, rejected, queries>>

\* An extractor up to its link loop: newContext, newPage, goto(landing page),
\* evaluate(link discovery).  Any throw is caught by the extractor's outer
\* catch, which logs and returns the (empty) article list.
Landing(c) ==
  /\ pc[c] = "landing"
  /\ \/ /\ srcBrowser[c] \in open
        /\ pc' = [pc EXCEPT ![c] = "article"]
        /\ li' = [li EXCEPT ![c] = 1]
        /\ UNCHANGED <<faults, si, srcBrowser, errLog>>
     \/ /\ Inject \/ (srcBrowser[c] \notin open /\ faults' = faults)
        /\ errLog' = [errLog EXCEPT ![c] = Append(@, si[c])]
        /\ AfterExtractor(c)
  /\ UNCHANGED <<aux, site, pages, edits, cfg, runs, thisBrowser, open, nBrowsers,
                 db, blobs, browser, found, existingUrls, pidx, savedCount,
                 contentKey, launchedBy, storageFault, blobFailed, rejected, queries>>

\* An extractor that puts each new article in front of the earlier ones.
PushArticleInFront(articles, article) ==
  IF article.title # "" /\ article.content # ""
  THEN <<article>> \o articles
  ELSE articles

\* An extractor that pushes whatever the page yielded.
PushAlways(articles, article) == Append(articles, article)

\* if (title && content) { articles.push({...}) } else { logger.warn(...) }
PushArticle(articles, article) ==
  IF article.title # "" /\ article.content # ""
  THEN Append(articles, article)
  ELSE articles

\* A per-article handler that throws away what the cycle extracted so far.
ArticleFailedDropsEarlier(c) == found' = [found EXCEPT ![c] = <<>>]

\* catch (error) { logger.error(`Error processing ... article ...`) } inside
\* the link loop: nothing is pushed and the loop goes on.
ArticleFailed(c) == UNCHANGED found

\* One iteration of the link loop: resolve the href, goto the article page,
\* evaluate title and body, push the article if both are non-empty.  A throw
\* inside the iteration is caught by the inner catch and the loop goes on.
Article(c) ==
  /\ pc[c] = "article"
  /\ li[c] <= Len(site[si[c]])
  /\ LET articleUrl == Resolve(si[c], site[si[c]][li[c]])
         page == pages[articleUrl]
     IN \/ /\ srcBrowser[c] \in open
           /\ found' = [found EXCEPT ![c] =
                 PushArticle(@, [title |-> page.title, url |-> articleUrl,
                                 content |-> page.body,
                                 source |-> SourceNames[si[c]]])]
           /\ UNCHANGED faults
        \/ /\ Inject \/ (srcBrowser[c] \notin open /\ faults' = faults)
           /\ ArticleFailed(c)
  /\ li' = [li EXCEPT ![c] = li[c] + 1]
  /\ UNCHANGED <<aux, site, pages, edits, cfg, runs, thisBrowser, open, nBrowsers,
                 db, blobs, pc, browser, srcBrowser, si, existingUrls, pidx,
                 savedCount, contentKey, errLog, launchedBy, storageFault,
                 blobFailed, rejected, queries>>

\* After the link loop: await page.close(); return articles.  A throw of
\* page.close is caught by the outer catch; the articles pushed so far are
\* returned all the same.
ClosePage(c) ==
  /\ pc[c] = "article"
  /\ li[c] > Len(site[si[c]])
  /\ \/ UNCHANGED <<faults, errLog>>
     \/ /\ Inject
        /\ errLog' = [errLog EXCEPT ![c] = Append(@, si[c])]
  /\ AfterExtractor(c)
  /\ UNCHANGED <<aux, site, pages, edits, cfg, runs, thisBrowser, open, nBrowsers,
                 db, blobs, browser, found, existingUrls, pidx, savedCount,
                 contentKey, launchedBy, storageFault, blobFailed, rejected, queries>>

\* The origin site changes what one article page yields.  Only page.goto
\* observes a page, so the change is taken when an extractor is about to
\* fetch that page: a change made earlier shows the extractor the same page.
AboutToFetch ==
  { Resolve(si[c], site[si[c]][li[c]]) :
      c \in { d \in Cycles : pc[d] = "article" /\ li[d] <= Len(site[si[d]]) } }

SiteChange ==
  /\ CanAct
  /\ \E u \in AboutToFetch : \E p \in PageContents \ {pages[u]} :
        pages' = [pages EXCEPT ![u] = p]
  /\ edits' = edits + 1
  /\ UNCHANGED <<aux, site, faults, cfg, runs, thisBrowser, open, nBrowsers, db,
                 blobs, locals>>

FoundUrls(c) == { found[c][i].url : i \in 1..Len(found[c]) }

\* const existingUrls = await this.newsService.findExistingUrls(urls)
FindExistingUrls(c) ==
  /\ pc[c] = "exists"
  /\ queries' = [queries EXCEPT ![c] = @ + 1]
  /\ \/ /\ existingUrls' = [existingUrls EXCEPT ![c] = FoundUrls(c) \cap DbUrls]
        /\ pidx' = [pidx EXCEPT ![c] = 1]
        /\ pc' = [pc EXCEPT ![c] = "persist"]
        /\ UNCHANGED <<faults, storageFault>>
     \/ /\ Inject
        /\ storageFault' = [storageFault EXCEPT ![c] = TRUE]
        /\ pc' = [pc EXCEPT ![c] = "finally"]
        /\ UNCHANGED <<existingUrls, pidx>>
  /\ UNCHANGED <<aux, site, pages, edits, cfg, runs, thisBrowser, open, nBrowsers,
                 db, blobs, browser, srcBrowser, si, li, found, savedCount,
                 contentKey, errLog, launchedBy, blobFailed, rejected>>

\* A skip that is counted as a save.
PersistSkipCounts(c) ==
  /\ pc[c] = "persist"
  /\ pidx[c] <= Len(found[c])
  /\ found[c][pidx[c]].url \in existingUrls[c]
  /\ pidx' = [pidx EXCEPT ![c] = pidx[c] + 1]
  /\ savedCount' = [savedCount EXCEPT ![c] = @ + 1]
  /\ UNCHANGED <<aux, shared, pc, browser, srcBrowser, si, li, found, existingUrls,
                 contentKey, errLog, launchedBy, storageFault, blobFailed,
                 rejected, queries>>

\* A persist loop that never gets past a url it finds stored.
PersistSkipStays(c) ==
  /\ pc[c] = "persist"
  /\ pidx[c] <= Len(found[c])
  /\ found[c][pidx[c]].url \in existingUrls[c]
  /\ UNCHANGED vars

\* for (const article of allArticles): an article whose url is in
\* existingUrls is passed over.
PersistSkip(c) ==
  /\ pc[c] = "persist"
  /\ pidx[c] <= Len(found[c])
  /\ found[c][pidx[c]].url \in existingUrls[c]
  /\ pidx' = [pidx EXCEPT ![c] = pidx[c] + 1]
  /\ UNCHANGED <<aux, shared, pc, browser, srcBrowser, si, li, found, existingUrls,
                 savedCount, contentKey, errLog, launchedBy, storageFault,
                 blobFailed, rejected, queries>>

\* The loop is over: the summary line is logged and the try block ends.
PersistDone(c) ==
  /\ pc[c] = "persist"
  /\ pidx[c] > Len(found[c])
  /\ pc' = [pc EXCEPT ![c] = "finally"]
  /\ UNCHANGED <<aux, shared, browser, srcBrowser, si, li, found, existingUrls,
                 pidx, savedCount, contentKey, errLog, launchedBy,
                 storageFault, blobFailed, rejected, queries>>

\* An upload failure that is swallowed: createNews goes on to save the record.
UploadFailedSwallowed(c, article) ==
  /\ Inject
  /\ storageFault' = [storageFault EXCEPT ![c] = TRUE]
  /\ blobFailed' = [blobFailed EXCEPT ![c] =
        @ \cup {[url |-> article.url, hadRow |-> article.url \in DbUrls]}]
  /\ contentKey' = [contentKey EXCEPT ![c] = 0]
  /\ pc' = [pc EXCEPT ![c] = "save"]
  /\ UNCHANGED <<blobs, db>>

\* An upload failure that still leaves a metadata row behind.
UploadFailedLeavesRow(c, article) ==
  /\ Inject
  /\ storageFault' = [storageFault EXCEPT ![c] = TRUE]
  /\ blobFailed' = [blobFailed EXCEPT ![c] =
        @ \cup {[url |-> article.url, hadRow |-> article.url \in DbUrls]}]
  /\ db' = Append(db, [title |-> article.title, content |-> "",
                       contentKey |-> 0, source |-> article.source,
                       url |-> article.url, body |-> ""])
  /\ pc' = [pc EXCEPT ![c] = "finally"]
  /\ UNCHANGED <<blobs, contentKey>>

\* An upload that throws although the blob was written.
UploadFailedAfterWrite(c, article) ==
  /\ Inject
  /\ storageFault' = [storageFault EXCEPT ![c] = TRUE]
  /\ blobFailed' = [blobFailed EXCEPT ![c] =
        @ \cup {[url |-> article.url, hadRow |-> article.url \in DbUrls]}]
  /\ blobs' = Append(blobs, article.content)
  /\ pc' = [pc EXCEPT ![c] = "finally"]
  /\ UNCHANGED <<db, contentKey>>

\* s3Client.send rejects: uploadContent logs and rethrows, createNews logs and
\* rethrows, and the persist loop has no handler of its own, so the throw ends
\* the loop in the catch of crawlAllSources.
UploadFailed(c, article) ==
  /\ Inject
  /\ storageFault' = [storageFault EXCEPT ![c] = TRUE]
  /\ blobFailed' = [blobFailed EXCEPT ![c] =
        @ \cup {[url |-> article.url, hadRow |-> article.url \in DbUrls]}]
  /\ pc' = [pc EXCEPT ![c] = "finally"]
  /\ UNCHANGED <<blobs, db, contentKey>>

\* createNews up to its first await: s3Service.uploadContent when the article
\* has content; the key of the new blob becomes contentKey.
UploadContent(c) ==
  /\ pc[c] = "persist"
  /\ pidx[c] <= Len(found[c])
  /\ found[c][pidx[c]].url \notin existingUrls[c]
  /\ LET article == found[c][pidx[c]]
     IN IF article.content = ""
        THEN /\ contentKey' = [contentKey EXCEPT ![c] = 0]
             /\ pc' = [pc EXCEPT ![c] = "save"]
             /\ UNCHANGED <<blobs, db, faults, storageFault, blobFailed>>
        ELSE \/ /\ blobs' = Append(blobs, article.content)
                /\ contentKey' = [contentKey EXCEPT ![c] = Len(blobs) + 1]
                /\ pc' = [pc EXCEPT ![c] = "save"]
                /\ UNCHANGED <<db, faults, storageFault, blobFailed>>
             \/ UploadFailed(c, article)
  /\ UNCHANGED <<aux, site, pages, edits, cfg, runs, thisBrowser, open, nBrowsers,
                 browser, srcBrowser, si, li, found, existingUrls, pidx,
                 savedCount, errLog, launchedBy, rejected, queries>>

\* A repository without the unique index.
NoUniqueIndex(url) == FALSE

\* NewsSchema: url is unique (Prop unique: true, index {url: 1} unique).
UniqueIndexRejects(url) == url \in DbUrls

\* A rejected insert that overwrites the stored record instead.
InsertRejectedOverwrites(c, article) ==
  /\ rejected' = [rejected EXCEPT ![c] = @ \cup {article.url}]
  /\ db' = [i \in 1..Len(db) |->
              IF db[i].url = article.url
              THEN NewsDoc(Tagged(article), contentKey[c]) ELSE db[i]]
  /\ pc' = [pc EXCEPT ![c] = "finally"]
  /\ UNCHANGED <<savedCount, pidx, faults, storageFault>>

\* save() rejects with a duplicate-key error: createNews logs and rethrows,
\* which ends the persist loop in the catch of crawlAllSources.
InsertRejected(c, article) ==
  /\ rejected' = [rejected EXCEPT ![c] = @ \cup {article.url}]
  /\ pc' = [pc EXCEPT ![c] = "finally"]
  /\ UNCHANGED <<db, savedCount, pidx, faults, storageFault>>

\* await newsDoc.save(), then savedCount++ back in the persist loop.
SaveDoc(c) ==
  /\ pc[c] = "save"
  /\ LET article == found[c][pidx[c]]
     IN IF UniqueIndexRejects(article.url)
        THEN InsertRejected(c, article)
        ELSE \/ /\ db' = Append(db, NewsDoc(Tagged(article), contentKey[c]))
                /\ savedCount' = [savedCount EXCEPT ![c] = @ + 1]
                /\ pidx' = [pidx EXCEPT ![c] = @ + 1]
                /\ pc' = [pc EXCEPT ![c] = "persist"]
                /\ UNCHANGED <<faults, storageFault, rejected>>
             \/ /\ Inject
                /\ storageFault' = [storageFault EXCEPT ![c] = TRUE]
                /\ pc' = [pc EXCEPT ![c] = "finally"]
                /\ UNCHANGED <<db, savedCount, pidx, rejected>>
  /\ UNCHANGED <<aux, site, pages, edits, cfg, runs, thisBrowser, open, nBrowsers,
                 blobs, browser, srcBrowser, si, li, found, existingUrls,
                 contentKey, errLog, launchedBy, blobFailed, queries>>

\* finally { if (this.browser) { await this.browser.close(); ...
\* A close that throws leaves the finally block and crawlAllSources rejects.
FinallyClose(c) ==
  /\ pc[c] = "finally"
  /\ IF thisBrowser = 0
     THEN /\ pc' = [pc EXCEPT ![c] = "returned"]
          /\ UNCHANGED <<open, faults>>
     ELSE \/ /\ open' = open \ {thisBrowser}
             /\ pc' = [pc EXCEPT ![c] = "finallyNull"]
             /\ UNCHANGED faults
          \/ /\ Inject
             /\ pc' = [pc EXCEPT ![c] = "threw"]
             /\ UNCHANGED open
  /\ UNCHANGED <<aux, site, pages, edits, cfg, runs, thisBrowser, nBrowsers, db,
                 blobs, browser, srcBrowser, si, li, found, existingUrls,
                 pidx, savedCount, contentKey, errLog, launchedBy,
                 storageFault, blobFailed, rejected, queries>>

\* A finally block that closes the browser and leaves the field as it is.
FinallyNullKeepsField(c) ==
  /\ pc[c] = "finallyNull"
  /\ pc' = [pc EXCEPT ![c] = "returned"]
  /\ UNCHANGED <<aux, shared, browser, srcBrowser, si, li, found, existingUrls,
                 pidx, savedCount, contentKey, errLog, launchedBy,
                 storageFault, blobFailed, rejected, queries>>

\* ... this.browser = null; } }  and crawlAllSources resolves.
FinallyNull(c) ==
  /\ pc[c] = "finallyNull"
  /\ thisBrowser' = 0
  /\ pc' = [pc EXCEPT ![c] = "returned"]
  /\ UNCHANGED <<aux, site, pages, edits, faults, cfg, runs, open, nBrowsers, db,
                 blobs, browser, srcBrowser, si, li, found, existingUrls,
                 pidx, savedCount, contentKey, errLog, launchedBy,
                 storageFault, blobFailed, rejected, queries>>

Step(c) ==
  \/ StartCycle(c)
  \/ InitBrowser(c)
  \/ LaunchDone(c)
  \/ LaunchFail(c)
  \/ Landing(c)
  \/ Article(c)
  \/ ClosePage(c)
  \/ FindExistingUrls(c)
  \/ PersistSkip(c)
  \/ PersistDone(c)
  \/ UploadContent(c)
  \/ SaveDoc(c)
  \/ FinallyClose(c)
  \/ FinallyNull(c)

Next == SiteChange \/ \E c \in Cycles : Step(c)

Spec == Init /\ [][Next]_vars

NextOverlap == \E c \in Cycles : Step(c)

SpecOverlap == InitOverlap /\ [][NextOverlap]_vars

\* A step of a cycle in which every awaited call succeeds.
StepClean(c) ==
  \/ StartCycle(c)
  \/ InitBrowser(c)
  \/ LaunchDone(c)
  \/ Landing(c)
  \/ Article(c)
  \/ ClosePage(c)
  \/ FindExistingUrls(c)
  \/ PersistSkip(c)
  \/ PersistDone(c)
  \/ UploadContent(c)
  \/ SaveDoc(c)
  \/ FinallyClose(c)
  \/ FinallyNull(c)

\* The article pages keep their bodies and every awaited call succeeds.
NextExcerpt == \E c \in Cycles : StepClean(c)

SpecExcerpt == InitExcerpt /\ [][NextExcerpt]_vars

NextTags == \E c \in Cycles : StepClean(c)

SpecTags == InitTags /\ [][NextTags]_vars

\* ------------------------------------------------------- termination
\* Environment events in one behaviour of the cycle that must terminate.
MaxFaultsLive == 1

\* Cycles started in that behaviour.
MaxRunsLive == 1

InitLive ==
  InitWith({StoredForeignPolicy},
           [envCap |-> MaxFaultsLive, runCap |-> MaxRunsLive,
            mayOverlap |-> FALSE])

\* Every call a running cycle awaits returns or fails: the cycle takes its
\* next step.
CallsSettle == \A c \in Cycles : WF_vars(Running(c) /\ Step(c))

SpecLive == InitLive /\ [][Next]_vars /\ CallsSettle

\* ------------------------------------------------- read operations
\* The result lists are sorted by publishedAt (or by text score); a result is
\* kept here as the records it holds.
Range(seq) == { seq[i] : i \in 1..Len(seq) }

\* this.newsModel.find().sort({ publishedAt: -1 })
FindAll == Range(db)

\* this.newsModel.findById(id): the record, or null (no records).
FindOne(id) == IF id \in 1..Len(db) THEN {db[id]} ELSE {}

\* this.newsModel.find({ source })
FindBySource(source) == { news \in Range(db) : news.source = source }

\* The text index covers title and content; a one-word query finds the
\* records whose title or inline content is that word.
Search(query) ==
  IF query # ""
  THEN { news \in Range(db) : news.title = query \/ news.content = query }
  ELSE FindAll

\* NewsService.getGeopoliticalEvents, which GET /news/geopolitical returns:
\* the records matching {'geopoliticalData.events': {$exists: true, $ne: []}}.
GetGeopoliticalEvents ==
  SelectSeq(db, LAMBDA news : news.geopoliticalData.events # <<>>)

\* this.newsModel.find({ 'geopoliticalData.countries': country })
FindByCountry(country) ==
  { news \in Range(db) :
      \E i \in 1..Len(news.geopoliticalData.countries) :
        news.geopoliticalData.countries[i] = country }

\* countDocuments() and the per-source and per-country counts.
GetStatistics ==
  [totalArticles |-> Len(db),
   bySource |-> { <<name, Cardinality({ k \in 1..Len(db) : db[k].source = name })>> :
                    name \in { db[k].source : k \in 1..Len(db) } },
   topCountries |-> { <<country, Cardinality({ k \in 1..Len(db) :
                                      db[k] \in FindByCountry(country) })>> :
                        country \in UNION { Range(db[k].geopoliticalData.countries) :
                                              k \in 1..Len(db) } }]

\* The outcome of getFullContent(id): the text returned, or the message of
\* the error thrown.
Returned(id, text) == [id |-> id, threw |-> FALSE, text |-> text]

Threw(id, message) == [id |-> id, threw |-> TRUE, text |-> message]

\* A getFullContent that answers an unknown id with the placeholder.
GetFullContentNeverThrows(id) ==
  IF id \notin 1..Len(db) THEN Returned(id, "No content available")
  ELSE IF db[id].contentKey # 0 THEN Returned(id, blobs[db[id].contentKey])
  ELSE IF db[id].content # "" THEN Returned(id, db[id].content)
  ELSE Returned(id, "No content available")

\* getFullContent: the blob when the record has a contentKey, else the inline
\* content, else the placeholder; a missing record throws.
GetFullContent(id) ==
  IF id \notin 1..Len(db) THEN Threw(id, "News article not found")
  ELSE IF db[id].contentKey # 0 THEN Returned(id, blobs[db[id].contentKey])
  ELSE IF db[id].content # "" THEN Returned(id, db[id].content)
  ELSE Returned(id, "No content available")

\* getContentUrl: a signed URL for the record's key, here the key itself.
GetContentUrl(id) ==
  IF id \notin 1..Len(db) \/ db[id].contentKey = 0
  THEN <<"Error: News article not found or has no content key">>
  ELSE <<"signed", db[id].contentKey>>

\* A getFullContent that writes the fetched body back into the record.
ReplyCachingContent(op, result) ==
  /\ reply' = [op |-> op, result |-> result]
  /\ db' = [k \in 1..Len(db) |-> [db[k] EXCEPT !.content = db[k].body]]
  /\ UNCHANGED <<site, pages, edits, faults, cfg, runs, thisBrowser, open,
                 nBrowsers, blobs, locals, mig, probe>>

\* The operation returns its result to the caller; nothing is written.
Reply(op, result) ==
  /\ reply' = [op |-> op, result |-> result]
  /\ UNCHANGED <<shared, locals, mig, probe>>

\* The record ids a caller asks for: those stored, and one that is not.
Ids == 1..(Len(db) + 1)

ReadFindAll == Reply("findAll", FindAll)

ReadFindOne == \E id \in Ids : Reply("findOne", FindOne(id))

ReadFindBySource ==
  \E s \in {1, 3} : Reply("findBySource", FindBySource(SourceNames[s]))

ReadSearch == \E query \in {"", "t1"} : Reply("search", Search(query))

ReadFindByCountry ==
  \E country \in {"Iran", "Japan"} : Reply("findByCountry", FindByCountry(country))

ReadGeopoliticalEvents ==
  Reply("getGeopoliticalEvents", Range(GetGeopoliticalEvents))

ReadStatistics == Reply("getStatistics", GetStatistics)

\* s3Service.getContent can reject: getFullContent logs and rethrows.
ReadFullContent ==
  \E id \in Ids :
    \/ Reply("getFullContent", GetFullContent(id))
    \/ /\ id \in 1..Len(db)
       /\ db[id].contentKey # 0
       /\ Reply("getFullContent", Threw(id, "S3 getContent failed"))

ReadContentUrl == \E id \in Ids : Reply("getContentUrl", GetContentUrl(id))

\* A request served by NewsController, or a caller of NewsService.
Read ==
  \/ ReadFindAll
  \/ ReadFindOne
  \/ ReadFindBySource
  \/ ReadSearch
  \/ ReadFindByCountry
  \/ ReadGeopoliticalEvents
  \/ ReadStatistics
  \/ ReadFullContent
  \/ ReadContentUrl

\* ------------------------------------------------- migration script
\* Times the migration script is run.
MaxMigrations == 2

\* Records in the repository when the script is first run.
MaxRows == 2

\* rawCollection.find(...).limit(5)
FallbackLimit == 5

\* doc[contentFieldName].length > 200
\*   ? doc[contentFieldName].substring(0, 200) + '...' : doc[contentFieldName]
TruncatedContent(content) ==
  IF Len(content) > 200 THEN SubSeq(content, 1, 200) \o "..." ELSE content

\* The i-th article of the repository, with the given body.
RowArticle(i, body) ==
  Tagged([title |-> "t1", url |-> <<3, Rep("p", i)>>, content |-> body,
          source |-> "Foreign Policy"])

\* A record written before the content store existed: the whole body inline,
\* no contentKey field.
LegacyRow(i, body) ==
  [NewsDoc(RowArticle(i, body), 0) EXCEPT !.content = body]

\* Bodies of the records: a short one and one longer than the excerpt.
RowBodies == { "b1", Rep("a", 201) }

RowKinds == [body : RowBodies, stored : BOOLEAN]

\* The key of the i-th record when createNews stored it: blobs are numbered
\* in the order they were written.
KeyAt(kinds, i) == Cardinality({ j \in 1..i : kinds[j].stored })

DbOf(kinds) ==
  [i \in 1..Len(kinds) |->
     IF kinds[i].stored
     THEN NewsDoc(RowArticle(i, kinds[i].body), KeyAt(kinds, i))
     ELSE LegacyRow(i, kinds[i].body)]

RECURSIVE BlobsOf(_)
BlobsOf(kinds) ==
  IF kinds = <<>> THEN <<>>
  ELSE LET n == Len(kinds)
           front == BlobsOf(SubSeq(kinds, 1, n - 1))
       IN IF kinds[n].stored THEN Append(front, kinds[n].body) ELSE front

\* Repositories holding legacy records, records createNews stored, or both.
Repositories ==
  { [site |-> NoLinks, db |-> DbOf(kinds), blobs |-> BlobsOf(kinds),
     first |-> FirstContent] :
      kinds \in UNION { [1..n -> RowKinds] : n \in 1..MaxRows } }

InitMigrate ==
  InitWith(Repositories,
           [envCap |-> MaxEnvEvents, runCap |-> 0, mayOverlap |-> FALSE])

\* NewsModel.find({content: {$exists: true, $ne: ''}, contentKey: {$exists: false}})
ArticlesToMigrate ==
  SelectSeq(db, LAMBDA doc : doc.content # "" /\ doc.contentKey = 0)

\* rawCollection.find({content: {$exists: true, $ne: ''}}).limit(5)
RawResults ==
  LET all == SelectSeq(db, LAMBDA doc : doc.content # "")
  IN SubSeq(all, 1, IF Len(all) < FallbackLimit THEN Len(all) ELSE FallbackLimit)

\* migrateToS3 up to its loop: the sample document, the selection and, when
\* nothing was selected, the second query.  An empty collection exits at once.
MigrateStart ==
  /\ mig.pc \in {"idle", "exited"}
  /\ mig.runs < MaxMigrations
  /\ mig' = IF db = <<>>
            THEN [mig EXCEPT !.pc = "exited", !.runs = @ + 1]
            ELSE IF ArticlesToMigrate # <<>>
            THEN [pc |-> "loop", selected |-> ArticlesToMigrate, i |-> 1,
                  key |-> 0, raw |-> FALSE, runs |-> mig.runs + 1,
                  migratedCount |-> 0, errorCount |-> 0]
            ELSE [pc |-> "loop", selected |-> RawResults, i |-> 1,
                  key |-> 0, raw |-> TRUE, runs |-> mig.runs + 1,
                  migratedCount |-> 0, errorCount |-> 0]
  /\ UNCHANGED <<shared, locals, reply, probe>>

\* A catch that counts the error and gives up on the remaining documents.
RecordFailedEndsLoop ==
  mig' = [mig EXCEPT !.pc = "loop", !.i = Len(mig.selected) + 1,
                     !.errorCount = @ + 1]

\* catch (error) { errorCount++; console.error(...) } inside the loop, which
\* goes on to the next document.
RecordFailed ==
  mig' = [mig EXCEPT !.pc = "loop", !.i = @ + 1, !.errorCount = @ + 1]

\* uploadToS3(doc.content, doc.source): a new blob under a new key; a throw is
\* caught inside the loop.
MigrateUpload ==
  /\ mig.pc = "loop"
  /\ mig.i <= Len(mig.selected)
  /\ \/ /\ blobs' = Append(blobs, mig.selected[mig.i].content)
        /\ mig' = [mig EXCEPT !.pc = "update", !.key = Len(blobs) + 1]
        /\ UNCHANGED faults
     \/ /\ Inject
        /\ RecordFailed
        /\ UNCHANGED blobs
  /\ UNCHANGED <<site, pages, edits, cfg, runs, thisBrowser, open, nBrowsers,
                 db, locals, reply, probe>>

\* updateOne({_id}, {$set: {contentKey, content: truncatedContent}})
MigrateUpdate ==
  /\ mig.pc = "update"
  /\ LET doc == mig.selected[mig.i]
     IN \/ /\ db' = [k \in 1..Len(db) |->
                       IF db[k].url = doc.url
                       THEN [db[k] EXCEPT !.contentKey = mig.key,
                                          !.content = TruncatedContent(doc.content)]
                       ELSE db[k]]
           /\ mig' = [mig EXCEPT !.pc = "loop", !.i = @ + 1,
                                  !.migratedCount = @ + 1]
           /\ UNCHANGED faults
        \/ /\ Inject
           /\ RecordFailed
           /\ UNCHANGED db
  /\ UNCHANGED <<site, pages, edits, cfg, runs, thisBrowser, open, nBrowsers,
                 blobs, locals, reply, probe>>

\* The loop is over: the counts are logged and process.exit(0) ends the script.
MigrateExit ==
  /\ mig.pc = "loop"
  /\ mig.i > Len(mig.selected)
  /\ mig' = [mig EXCEPT !.pc = "exited"]
  /\ UNCHANGED <<shared, locals, reply, probe>>

NextMigrate == MigrateStart \/ MigrateUpload \/ MigrateUpdate \/ MigrateExit

SpecMigrate == InitMigrate /\ [][NextMigrate]_vars

\* Article bodies for the read operations: one naming a listed country.
ReadBodies == { "IRAN", "b1" }

\* A repository that holds two legacy records, one with its body inline and
\* one without any content, before the first cycle stores an article.
LegacyRepository ==
  [site |-> WorldOne, db |-> <<LegacyRow(1, "b1"), LegacyRow(2, "")>>,
   blobs |-> <<>>, first |-> [title |-> "t1", body |-> "IRAN"]]

InitReads ==
  InitWith({ FreshYielding(WorldOne, [title |-> "t1", body |-> b]) :
               b \in ReadBodies } \cup {LegacyRepository},
           [envCap |-> 0, runCap |-> MaxRuns, mayOverlap |-> FALSE])

\* Requests arrive at any moment of a crawl cycle.
NextReads == Read \/ \E c \in Cycles : StepClean(c)

SpecReads == InitReads /\ [][NextReads]_vars

\* ------------------------------------------------- article extraction
\* Elements of each kind on an article page.
MaxHeadings == 2
MaxParagraphs == 2
MaxDates == 1

\* crawlForeignPolicy: titleSelectors, contentSelectors, dateSelectors.
TitleSelectors ==
  <<"h1", ".article-header h1", ".post-title", ".headline", ".article-title">>

ContentSelectors ==
  <<".post-content p", ".article-content p", ".article-body p",
    ".entry-content p", ".content-body p", "article p", ".paywall p",
    ".article__body p">>

DateSelectors ==
  <<"time", ".date", ".post-date", ".article-date",
    "[itemprop=datePublished]", ".published-date">>

\* The fallback: document.querySelectorAll('p').
AllParagraphs == "p"

\* String.prototype.trim, for texts padded with spaces.
RECURSIVE Trim(_)
Trim(text) ==
  IF text = "" THEN ""
  ELSE IF SubSeq(text, 1, 1) = " " THEN Trim(SubSeq(text, 2, Len(text)))
  ELSE IF SubSeq(text, Len(text), Len(text)) = " "
       THEN Trim(SubSeq(text, 1, Len(text) - 1))
  ELSE text

\* Array.prototype.join('\n\n')
RECURSIVE Join(_)
Join(texts) ==
  IF texts = <<>> THEN ""
  ELSE IF Len(texts) = 1 THEN texts[1]
  ELSE texts[1] \o "\n\n" \o Join(Tail(texts))

\* The element matches the selector.  A heading is written with the most
\* specific title selector it matches (an h1 inside .article-header is also
\* an h1); a paragraph with the container it is in, and every paragraph is a p.
Matches(el, selector) ==
  \/ el.as = selector
  \/ selector = "h1" /\ el.as = ".article-header h1"
  \/ selector = AllParagraphs /\ el.as \in Range(ContentSelectors)

\* document.querySelectorAll(selector), in document order.
QuerySelectorAll(elements, selector) ==
  SelectSeq(elements, LAMBDA el : Matches(el, selector))

\* document.querySelector(selector): the first match, or none (null).
QuerySelector(elements, selector) ==
  LET all == QuerySelectorAll(elements, selector)
  IN IF all = <<>> THEN <<>> ELSE <<all[1]>>

\* The title evaluate: the first selector whose first match has textContent.
RECURSIVE TitleFrom(_, _)
TitleFrom(headings, i) ==
  IF i > Len(TitleSelectors) THEN ""
  ELSE LET titleEl == QuerySelector(headings, TitleSelectors[i])
       IN IF titleEl # <<>> /\ titleEl[1].text # ""
          THEN Trim(titleEl[1].text)
          ELSE TitleFrom(headings, i + 1)

\* Array.from(paragraphs).map(trim).filter(Boolean).join('\n\n')
TextOf(paragraphs) ==
  Join(SelectSeq([k \in 1..Len(paragraphs) |-> Trim(paragraphs[k].text)],
                 LAMBDA text : text # ""))

\* The content evaluate: the first selector with paragraphs.length > 0, then
\* all p elements, then ''.
RECURSIVE ContentFrom(_, _)
ContentFrom(paragraphs, i) ==
  IF i > Len(ContentSelectors)
  THEN IF QuerySelectorAll(paragraphs, AllParagraphs) # <<>>
       THEN TextOf(QuerySelectorAll(paragraphs, AllParagraphs))
       ELSE ""
  ELSE IF QuerySelectorAll(paragraphs, ContentSelectors[i]) # <<>>
       THEN TextOf(QuerySelectorAll(paragraphs, ContentSelectors[i]))
       ELSE ContentFrom(paragraphs, i + 1)

\* The publishedAt evaluate: the first selector whose first match has a
\* datetime attribute or text, trimmed; "" stands for null.
RECURSIVE DateStrFrom(_, _)
DateStrFrom(dates, i) ==
  IF i > Len(DateSelectors) THEN ""
  ELSE LET dateEl == QuerySelector(dates, DateSelectors[i])
           dateStr == IF dateEl = <<>> THEN ""
                      ELSE IF dateEl[1].datetime # "" THEN dateEl[1].datetime
                      ELSE dateEl[1].text
       IN IF dateStr # "" THEN Trim(dateStr) ELSE DateStrFrom(dates, i + 1)

Digits ==
  [ch \in {"0", "1", "2", "3", "4", "5", "6", "7", "8", "9"} |->
     CASE ch = "0" -> 0 [] ch = "1" -> 1 [] ch = "2" -> 2 [] ch = "3" -> 3
       [] ch = "4" -> 4 [] ch = "5" -> 5 [] ch = "6" -> 6 [] ch = "7" -> 7
       [] ch = "8" -> 8 [] ch = "9" -> 9]

IsDigits(text) ==
  \A k \in 1..Len(text) : SubSeq(text, k, k) \in DOMAIN Digits

RECURSIVE Number(_)
Number(text) ==
  IF text = "" THEN 0
  ELSE 10 * Number(SubSeq(text, 1, Len(text) - 1))
       + Digits[SubSeq(text, Len(text), Len(text))]

\* new Date(NaN): getTime() is NaN and the value is no timestamp.
InvalidDate == [valid |-> FALSE, time |-> <<0, 0, 0>>]

\* new Date(dateStr) for the date-only form YYYY-MM-DD; any other string
\* met here is one Date.parse does not understand.
NewDate(dateStr) ==
  IF /\ Len(dateStr) = 10
     /\ SubSeq(dateStr, 5, 5) = "-"
     /\ SubSeq(dateStr, 8, 8) = "-"
     /\ IsDigits(SubSeq(dateStr, 1, 4))
     /\ IsDigits(SubSeq(dateStr, 6, 7))
     /\ IsDigits(SubSeq(dateStr, 9, 10))
     /\ Number(SubSeq(dateStr, 6, 7)) \in 1..12
     /\ Number(SubSeq(dateStr, 9, 10)) \in 1..31
  THEN [valid |-> TRUE,
        time |-> <<Number(SubSeq(dateStr, 1, 4)), Number(SubSeq(dateStr, 6, 7)),
                   Number(SubSeq(dateStr, 9, 10))>>]
  ELSE InvalidDate

\* new Date(): the moment of the crawl.
CrawlTime == [valid |-> TRUE, time |-> <<2026, 1, 1>>]

\* publishedAt ? new Date(publishedAt) : new Date()
PublishedAt(dateStr) == IF dateStr # "" THEN NewDate(dateStr) ELSE CrawlTime

\* Sequences of at most n elements.
SeqUpTo(elements, n) == UNION { [1..k -> elements] : k \in 0..n }

HeadingElements == [as : Range(TitleSelectors), text : {"", " ", " T "}]

ParagraphElements == [as : Range(ContentSelectors), text : {"", " ", " P "}]

DateElements ==
  [as : Range(DateSelectors),
   datetime : {"", "2024-05-01", "soon"},
   text : {"", " ", " 2024-05-02 ", "2024-13-01", "last week"}]

\* An article page with a title, a body and no date.
PlainPage ==
  [headings |-> <<[as |-> "h1", text |-> "T"]>>,
   paragraphs |-> <<[as |-> "article p", text |-> "P"]>>,
   dates |-> <<>>]

\* Article pages: the plain page with its headings, its paragraphs or its
\* date elements replaced.
ArticlePages ==
  { [PlainPage EXCEPT !.headings = h] : h \in SeqUpTo(HeadingElements, MaxHeadings) }
    \cup
  { [PlainPage EXCEPT !.paragraphs = p] : p \in SeqUpTo(ParagraphElements, MaxParagraphs) }
    \cup
  { [PlainPage EXCEPT !.dates = d] : d \in SeqUpTo(DateElements, MaxDates) }

InitExtract ==
  /\ InitRepository({Fresh(NoLinks)},
                    [envCap |-> 0, runCap |-> 0, mayOverlap |-> FALSE])
  /\ \E page \in ArticlePages : probe = [NoProbe EXCEPT !.page = page]

\* The body of the link loop after page.goto: the three evaluate calls, and
\* the push when both title and content are non-empty.
ExtractArticle ==
  /\ ~probe.done
  /\ LET title == TitleFrom(probe.page.headings, 1)
         content == ContentFrom(probe.page.paragraphs, 1)
         publishedAt == DateStrFrom(probe.page.dates, 1)
     IN probe' = [page |-> probe.page, done |-> TRUE,
                  pushed |-> title # "" /\ content # "",
                  article |-> [title |-> title, content |-> content,
                               publishedAt |-> PublishedAt(publishedAt)]]
  /\ UNCHANGED <<shared, locals, reply, mig>>

NextExtract == ExtractArticle

SpecExtract == InitExtract /\ [][NextExtract]_vars

\* ----------------------------------------------------------------- claims
\* crawlAllSources has left its try block (catch included).
Ended(c) == pc[c] \in {"finally", "finallyNull", "returned", "threw"}

\* Candidates after the persist loop's position that are new to the repository.
LeftBehind(c) ==
  { j \in (pidx[c] + 1)..Len(found[c]) : found[c][j].url \notin existingUrls[c] }

\* C1: when a run of crawlAllSources that overlaps no other run returns,
\* whatever extraction, existence-check or persistence faults it met, every
\* browser it launched is closed and the browser field is null.
C1_BrowserReleasedOnReturn ==
  [][\A c \in Cycles :
       (pc[c] # "returned" /\ pc'[c] = "returned")
         => (thisBrowser' = 0 /\ launchedBy'[c] \cap open' = {})]_vars

\* A run that launched a browser and met a fault has returned.
C1_Witness ==
  \E c \in Cycles :
    /\ pc[c] = "returned"
    /\ launchedBy[c] # {}
    /\ storageFault[c] \/ errLog[c] # <<>>

\* C2: if the extractor of source k faults, every extractor after k is still
\* invoked and the articles the other sources extracted reach the persist
\* stage and are saved.  Stated for runs without any storage fault.
C2_OtherSourcesSaved ==
  \A c \in Cycles :
    (pc[c] = "returned" /\ errLog[c] # <<>> /\ ~storageFault[c])
      => /\ si[c] = NumSources
         /\ \A i \in 1..Len(found[c]) :
              (\A k \in 1..Len(errLog[c]) :
                 found[c][i].source # SourceNames[errLog[c][k]])
                => found[c][i].url \in DbUrls

\* C3: if createNews fails for one new candidate, every later new candidate of
\* the batch is still attempted in the same cycle.
C3_PersistLoopContinues ==
  \A c \in Cycles : (Ended(c) /\ pidx[c] >= 1) => LeftBehind(c) = {}

\* C4: every stored record whose contentKey is set refers to a blob that was
\* written and holds the body the record was created from; every record
\* created from a non-empty body has a contentKey; and no insert is pending
\* or made for an article whose blob write failed.
C4_ContentKeyIntegrity ==
  /\ \A i \in 1..Len(db) :
       /\ db[i].contentKey # 0 =>
            /\ db[i].contentKey \in 1..Len(blobs)
            /\ blobs[db[i].contentKey] = db[i].body
       /\ db[i].body # "" => db[i].contentKey # 0
  /\ \A c \in Cycles :
       pc[c] = "save" =>
         /\ \A f \in blobFailed[c] : f.url # found[c][pidx[c]].url
         /\ found[c][pidx[c]].content # "" =>
              /\ contentKey[c] \in 1..Len(blobs)
              /\ blobs[contentKey[c]] = found[c][pidx[c]].content

\* A cycle has stored one article with its blob and lost another to a failed
\* blob write.
C4_Witness ==
  \E c \in Cycles :
    /\ pc[c] = "returned"
    /\ savedCount[c] > 0
    /\ blobFailed[c] # {}
    /\ \E i \in 1..Len(db) : db[i].contentKey = Len(blobs)

C6_UrlUnique ==
  \A i, j \in 1..Len(db) : i # j => db[i].url # db[j].url

\* Two overlapping cycles passed the existence check for a url; one stored it
\* and the insert of the other was rejected.
C6_Witness ==
  \E c, d \in Cycles : \E u \in rejected[c] :
    /\ c # d
    /\ u \notin existingUrls[c]
    /\ u \notin existingUrls[d]
    /\ \E i \in 1..pidx[d] - 1 : found[d][i].url = u
    /\ u \in DbUrls

\* C7: the crawl path only inserts; a stored record is never changed or
\* deleted, whatever a later cycle extracts for its url.
C7_InsertOnly ==
  [][/\ Len(db') >= Len(db)
     /\ \A i \in 1..Len(db) : db'[i] = db[i]]_vars

\* A cycle re-discovered a stored url with another title and body, and its
\* insert was rejected.
C7_Witness ==
  \E c \in Cycles : \E u \in rejected[c] :
    \E i \in 1..Len(db) : \E k \in 1..Len(found[c]) :
      /\ db[i].url = u
      /\ found[c][k].url = u
      /\ found[c][k].title # db[i].title
      /\ found[c][k].content # db[i].body

\* C8: with unchanged origin sites and no environment fault, a second run of
\* the cycle saves no article.
C8_SecondRunSavesNothing ==
  \A c \in Cycles :
    (Running(c) /\ runs >= 2 /\ faults = 0 /\ edits = 0) => savedCount[c] = 0

\* The articles in allArticles that extractor s returned.
FromSource(c, s) ==
  { i \in 1..Len(found[c]) : found[c][i].source = SourceNames[s] }

\* The summary line of crawlAllSources has been logged.
SummaryLogged(c) == Ended(c) /\ pidx[c] > Len(found[c])

\* C9: in a cycle where BBC returns two new articles, Al Jazeera throws and
\* Foreign Policy returns one article whose url is already stored, the
\* summary reports 3 articles found and 2 saved, and the only extractor
\* error logged is Al Jazeera's.
C9_ScenarioSummary ==
  \A c \in Cycles :
    ( /\ SummaryLogged(c)
      /\ Cardinality(FromSource(c, 1)) = 2
      /\ \A i \in FromSource(c, 1) : found[c][i].url \notin existingUrls[c]
      /\ Cardinality(FromSource(c, 3)) = 1
      /\ \A i \in FromSource(c, 3) : found[c][i].url \in existingUrls[c]
      /\ \E k \in 1..Len(errLog[c]) : errLog[c][k] = 2
      /\ faults = 1 )
    => /\ Len(found[c]) = 3
       /\ savedCount[c] = 2
       /\ errLog[c] = <<2>>

\* The scenario of C9 has run to its summary.
C9_Witness ==
  \E c \in Cycles :
    /\ pc[c] = "returned"
    /\ SummaryLogged(c)
    /\ Cardinality(FromSource(c, 1)) = 2
    /\ \A i \in FromSource(c, 1) : found[c][i].url \notin existingUrls[c]
    /\ Cardinality(FromSource(c, 3)) = 1
    /\ \A i \in FromSource(c, 3) : found[c][i].url \in existingUrls[c]
    /\ errLog[c] = <<2>>

\* C10: a cycle whose insert the unique index rejected goes on to persist its
\* remaining new candidates.
C10_RejectionIsBenign ==
  \A c \in Cycles :
    (Ended(c) /\ rejected[c] # {}) => LeftBehind(c) = {}

\* crawlAllSources holds a browser in its `browser` local and has not yet
\* reached the close of its own finally block.
UsingBrowser(c) ==
  /\ browser[c] # 0
  /\ pc[c] \in {"landing", "article", "srcInit", "launchSrc", "exists",
                "persist", "save", "finally"}

\* C11: when a manual cycle overlaps a scheduled one, the browser a cycle
\* acquired stays open until that same cycle's own cleanup: no other cycle
\* closes it.
C11_BrowserNotClosedByOther ==
  \A c \in Cycles : UsingBrowser(c) => browser[c] \in open

\* C12: once two overlapping cycles have both returned, every browser that
\* was launched has been closed.
C12_NoBrowserLeftRunning ==
  (\A c \in Cycles : pc[c] = "returned") => open = {}

\* crawlAllSources got a browser at line 39 and went on to the extractors.
SessionStarted(c) == si[c] >= 1

\* The call of crawlAllSources made by startCrawling has settled.
Settled(c) == pc[c] \in {"returned", "threw"}

\* startCrawling: try { await crawlAllSources(); return {success: true, ...} }
\* catch (error) { return {success: false, message: error.message} }
StartCrawlingResult ==
  IF pc["manual"] = "returned"
  THEN [success |-> TRUE, message |-> "Crawling completed successfully"]
  ELSE [success |-> FALSE, message |-> "error.message"]

\* C13: if the browser cannot be launched at all, the cycle is aborted and the
\* manual trigger returns success:false with the error message.
C13_LaunchFailurePropagates ==
  (Settled("manual") /\ ~SessionStarted("manual"))
    => /\ ~StartCrawlingResult.success
       /\ StartCrawlingResult.message = "error.message"

\* C14: the manual trigger returns success:true for every cycle in which the
\* browser was launched, whatever faults followed, and success:false only
\* when the browser could not be acquired.
C14_SuccessUnlessLaunchFailed ==
  Settled("manual") =>
    /\ SessionStarted("manual") => StartCrawlingResult.success
    /\ ~StartCrawlingResult.success => ~SessionStarted("manual")

\* C15: a source whose extractor was interrupted by a source-level fault (one
\* caught by the extractor's outer handler, such as a failing page.close)
\* contributes no article to the cycle's candidate list, also when it had
\* already extracted some.
C15_FaultedSourceContributesNothing ==
  \A c \in Cycles : \A k \in 1..Len(errLog[c]) :
    FromSource(c, errLog[c][k]) = {}

\* The link loop of cycle c is about to fetch a link.
AtLink(c) == pc[c] = "article" /\ li[c] <= Len(site[si[c]])

\* The page the link loop of cycle c is about to fetch.
NextPage(c) == pages[Resolve(si[c], site[si[c]][li[c]])]

\* C16: a failure on one article page (a fault while loading or evaluating
\* it, or a page yielding an empty title or an empty body) drops only that
\* article: the loop moves to the next discovered link of the same source
\* without retrying the link, the source is not aborted, and the articles
\* extracted so far are kept.
C16_ArticleFailureIsLocal ==
  [][\A c \in Cycles :
       (AtLink(c) /\ <<pc[c], li[c], si[c], found[c], errLog[c]>>
                       # <<pc'[c], li'[c], si'[c], found'[c], errLog'[c]>>)
         => /\ pc'[c] = "article" /\ si'[c] = si[c] /\ errLog'[c] = errLog[c]
            /\ li'[c] = li[c] + 1
            /\ Len(found'[c]) \in {Len(found[c]), Len(found[c]) + 1}
            /\ SubSeq(found'[c], 1, Len(found[c])) = found[c]
            /\ (faults' # faults \/ NextPage(c).title = ""
                                 \/ NextPage(c).body = "")
                 => found'[c] = found[c]]_vars

\* Foreign Policy's first article was extracted, the page then lost its title
\* and failed under the second link, and the third link is still to come.
C16_Witness ==
  \E c \in Cycles :
    /\ AtLink(c)
    /\ li[c] = 3
    /\ Len(found[c]) = 1
    /\ found[c][1].url = Resolve(si[c], site[si[c]][2])
    /\ pages[found[c][1].url].title = ""

\* C17: a cycle issues at most one existence query, whatever the number of
\* candidates; it issues it after every extractor has returned and before
\* its first insert.
C17_SingleExistenceQuery ==
  [][\A c \in Cycles :
       /\ queries'[c] <= 1
       /\ queries'[c] > queries[c]
            => /\ si[c] = NumSources
               /\ pc[c] \notin {"landing", "article", "srcInit", "launchSrc"}
               /\ savedCount[c] = 0 /\ rejected[c] = {}
       /\ (pc'[c] = "save" \/ savedCount'[c] > 0) => queries'[c] = 1]_vars

\* A cycle with three candidates has made its query and stored two of them.
C17_Witness ==
  \E c \in Cycles :
    Len(found[c]) = 3 /\ savedCount[c] = 2 /\ queries[c] = 1

\* Position of the extractor that labels its articles `name`.
SourceIndex(name) == CHOOSE s \in 1..NumSources : SourceNames[s] = name

\* Position at which the landing page of source s first lists url u.
LinkIndex(s, u) ==
  CHOOSE k \in 1..Len(site[s]) :
    /\ Resolve(s, site[s][k]) = u
    /\ \A m \in 1..(k - 1) : Resolve(s, site[s][m]) # u

\* article x comes no later than article y in discovery order.
DiscoveredBefore(x, y) ==
  LET sx == SourceIndex(x.source)
      sy == SourceIndex(y.source)
  IN sx < sy \/ (sx = sy /\ LinkIndex(sx, x.url) <= LinkIndex(sy, y.url))

\* Position of the stored record with url u.
DbIndex(u) == CHOOSE k \in 1..Len(db) : db[k].url = u

\* Positions of allArticles whose createNews call completed in cycle c.
SavedBy(c) ==
  { i \in 1..(pidx[c] - 1) : found[c][i].url \notin existingUrls[c] }

\* C18: within a cycle articles are persisted in discovery order (sources in
\* the order BBC, Al Jazeera, Foreign Policy, The Diplomat, AP News, The
\* Guardian, Euronews; within a source in link order): the candidate list is
\* in that order, and of two articles the cycle saved the earlier one was
\* inserted first.
C18_PersistedInDiscoveryOrder ==
  \A c \in Cycles :
    /\ \A i, j \in 1..Len(found[c]) :
         i < j => DiscoveredBefore(found[c][i], found[c][j])
    /\ \A i, j \in SavedBy(c) :
         i < j => DbIndex(found[c][i].url) < DbIndex(found[c][j].url)

\* A cycle has stored both BBC articles and then the Foreign Policy one.
C18_Witness ==
  \E c \in Cycles :
    /\ Cardinality(SavedBy(c)) = 3
    /\ Cardinality({ found[c][i].source : i \in SavedBy(c) }) = 2

\* C19: every article in the candidate list, and so every record a cycle
\* stores, has a non-empty title and a non-empty body; a page that yields
\* only one of the two is not added to the candidates.
C19_CandidatesComplete ==
  /\ \A c \in Cycles : \A i \in 1..Len(found[c]) :
       found[c][i].title # "" /\ found[c][i].content # ""
  /\ \A k \in 1..Len(db) : db[k].title # "" /\ db[k].body # ""

\* The link loop has passed, without a fault, a page that yields only a
\* title or only a body, and the candidate list has no article for it.
C19_Witness ==
  \E c \in Cycles :
    /\ pc[c] = "article"
    /\ li[c] >= 2
    /\ faults = 0
    /\ LET u == Resolve(si[c], site[si[c]][li[c] - 1])
       IN /\ pages[u].title = "" \/ pages[u].body = ""
          /\ \A i \in 1..Len(found[c]) : found[c][i].url # u

\* The truncation marker createNews appends.
Marker == "..."

\* text contains the truncation marker somewhere.
HasMarker(text) ==
  \E i \in 1..(Len(text) - Len(Marker) + 1) :
    SubSeq(text, i, i + Len(Marker) - 1) = Marker

\* C20: for every stored article whose body is longer than 200 characters
\* the inline excerpt is the first 200 characters of the body followed by
\* '...'; for every stored article whose body has at most 200 characters the
\* excerpt contains no truncation marker.
C20_ExcerptTruncation ==
  \A k \in 1..Len(db) :
    LET body == db[k].body
        excerpt == db[k].content
    IN IF Len(body) > 200
       THEN /\ Len(excerpt) = 200 + Len(Marker)
            /\ \A i \in 1..200 :
                 SubSeq(excerpt, i, i) = SubSeq(body, i, i)
            /\ SubSeq(excerpt, 201, Len(excerpt)) = Marker
       ELSE ~HasMarker(excerpt)

\* Stored: an article with a body longer than the limit whose excerpt ends
\* where the body goes on with other characters.
C20_Witness ==
  \E k \in 1..Len(db) :
    /\ Len(db[k].body) > 200
    /\ SubSeq(db[k].body, 201, 201) = "z"
    /\ db[k].content # ""

\* a and b are the same letter in either case, or the same character.
SameLetter(a, b) ==
  \/ a = b
  \/ \E i \in 1..Len(UpperCase) :
       {a, b} = {CharAt(UpperCase, i), CharAt(LowerCase, i)}

\* name occurs, ignoring case, as a substring of text.
OccursIgnoringCase(name, text) ==
  \E i \in 1..(Len(text) - Len(name) + 1) :
    \A j \in 1..Len(name) : SameLetter(CharAt(text, i + j - 1), CharAt(name, j))

\* The countries a stored record is tagged with.
CountriesOf(doc) ==
  { doc.geopoliticalData.countries[i] :
      i \in 1..Len(doc.geopoliticalData.countries) }

\* C21: the countries of every stored article are exactly the names of the
\* fixed 24-entry list that occur, ignoring case, as a substring of the
\* article body (a body naming China and Russia yields both, not France).
C21_CountriesAreThoseInBody ==
  /\ Len(Countries) = 24
  /\ \A k \in 1..Len(db) :
       CountriesOf(db[k]) =
         { Countries[i] : i \in { j \in 1..Len(Countries) :
                                    OccursIgnoringCase(Countries[j], db[k].body) } }

\* Stored: an article whose body names China in capitals and Russia, tagged
\* with both and nothing else.
C21_Witness ==
  \E k \in 1..Len(db) :
    /\ db[k].body = "CHINA and Russia met"
    /\ db[k].geopoliticalData.countries = <<"China", "Russia">>

\* C22: every record a crawl cycle creates has empty regions, organizations
\* and events; only countries can be non-empty.
C22_OnlyCountriesPopulated ==
  \A k \in 1..Len(db) :
    /\ db[k].geopoliticalData.regions = <<>>
    /\ db[k].geopoliticalData.organizations = <<>>
    /\ db[k].geopoliticalData.events = <<>>

\* Stored: an article tagged with a country.
C22_Witness ==
  \E k \in 1..Len(db) : db[k].geopoliticalData.countries # <<>>

\* u names its origin: it is an absolute URL.
IsAbsolute(u) == u[1] \in 1..NumSources

\* u is what the link href, discovered on the site of source s, stands for:
\* the base origin of s followed by the path when href is root-relative,
\* href itself when it is absolute.
StandsFor(u, s, href) ==
  \/ ~href.abs /\ u = <<s, href.path>>
  \/ href.abs /\ u = <<href.origin, href.path>>

\* C23: every candidate url is absolute and is what one of the links
\* discovered on its source stands for (a root-relative link resolved against
\* the base origin of the site, an absolute link unchanged); that same url is
\* the one asked about in the existence check and stored as the record's url.
C23_UrlsResolved ==
  \A c \in Cycles :
    /\ \A i \in 1..Len(found[c]) :
         LET article == found[c][i]
             s == SourceIndex(article.source)
         IN /\ IsAbsolute(article.url)
            /\ \E k \in 1..Len(site[s]) : StandsFor(article.url, s, site[s][k])
    /\ existingUrls[c] \subseteq FoundUrls(c)
    /\ \A i \in SavedBy(c) : found[c][i].url \in DbUrls
    /\ \A k \in 1..Len(db) : IsAbsolute(db[k].url)

\* A cycle extracted the same page from a root-relative and from an absolute
\* link, and stored it under the resolved url.
C23_Witness ==
  \E c \in Cycles :
    /\ Len(found[c]) = 3
    /\ found[c][1].url = found[c][2].url
    /\ \E k \in 1..Len(site[3]) : site[3][k].abs
    /\ \E k \in 1..Len(site[3]) : ~site[3][k].abs
    /\ SavedBy(c) # {}

\* The record has a non-empty tag category.
HasTag(news) ==
  \/ news.geopoliticalData.countries # <<>>
  \/ news.geopoliticalData.regions # <<>>
  \/ news.geopoliticalData.organizations # <<>>
  \/ news.geopoliticalData.events # <<>>

\* C24: GET /news/geopolitical returns exactly the stored articles that have
\* at least one non-empty tag category among countries, regions,
\* organizations and events.
C24_GeopoliticalReturnsTagged ==
  Range(GetGeopoliticalEvents) = { news \in Range(db) : HasTag(news) }

\* A step in which a read operation returned to its caller: one of the
\* requests, or the existence query of a crawl cycle.
ReadStep ==
  \/ reply' # reply
  \/ \E c \in Cycles : pc[c] = "exists" /\ pc'[c] # "exists"

\* C25: no read operation changes the stored articles or the stored blobs,
\* whether it is called alone or while a crawl cycle is in progress.
C25_ReadsChangeNothing ==
  [][ReadStep => UNCHANGED <<db, blobs>>]_vars

\* The first cycle has stored an article and is still in its persist loop
\* when the full content of that article is read.
C25_Witness ==
  /\ reply = [op |-> "getFullContent", result |-> Returned(1, "IRAN")]
  /\ runs = 1
  /\ \E c \in Cycles : pc[c] = "persist"

\* The inline content is at most the first 200 characters of the body plus
\* the truncation marker.
InlineOf(content, body) ==
  \/ content = ""
  \/ Len(body) <= ExcerptLimit /\ content = body
  \/ Len(body) > ExcerptLimit /\ content = SubSeq(body, 1, ExcerptLimit) \o "..."

\* Every record with a contentKey points to a blob holding its original body
\* and keeps at most an excerpt inline.
KeysPointToBodies ==
  \A k \in 1..Len(db) :
    db[k].contentKey # 0 =>
      /\ db[k].contentKey \in 1..Len(blobs)
      /\ blobs[db[k].contentKey] = db[k].body
      /\ InlineOf(db[k].content, db[k].body)

\* C26: after the migration script has run, however many times, every record
\* that has a contentKey points to a blob holding the article's original
\* full body and keeps at most the excerpt inline; a record that already has
\* a contentKey keeps it.
C26_MigrationKeepsContent ==
  /\ [](mig.pc = "exited" => KeysPointToBodies)
  /\ [][\A k \in 1..Len(db) :
          db[k].contentKey # 0 => db'[k].contentKey = db[k].contentKey]_vars

\* C27: within a single crawl cycle at most one browser is launched, and
\* every extractor that runs in the cycle, handed the browser or calling
\* initBrowser itself, uses the instance crawlAllSources acquired.
C27_OneBrowserPerCycle ==
  \A c \in Cycles :
    /\ Cardinality(launchedBy[c]) <= 1
    /\ pc[c] \in {"landing", "article"} => srcBrowser[c] = browser[c]

\* The element's text is non-empty once trimmed.
NonEmpty(el) == Trim(el.text) # ""

\* The matches of the first selector, in priority order from the i-th on,
\* that yields at least one non-empty match; none when no selector does.
RECURSIVE FirstYielding(_, _, _)
FirstYielding(elements, selectors, i) ==
  IF i > Len(selectors) THEN <<>>
  ELSE LET yielded == SelectSeq(QuerySelectorAll(elements, selectors[i]), NonEmpty)
       IN IF yielded # <<>> THEN yielded
          ELSE FirstYielding(elements, selectors, i + 1)

\* C28: for title and for body the extractor takes the first selector, in
\* priority order, that yields at least one non-empty match; a selector
\* matching only empty or whitespace-only elements is passed over, the body
\* falling back to all paragraphs last, and only then is the article a failure.
C28_FirstNonEmptySelectorWins ==
  probe.done =>
    LET titles == FirstYielding(probe.page.headings, TitleSelectors, 1)
        bodies == FirstYielding(probe.page.paragraphs,
                                Append(ContentSelectors, AllParagraphs), 1)
    IN /\ probe.article.title = IF titles = <<>> THEN "" ELSE Trim(titles[1].text)
       /\ probe.article.content = TextOf(bodies)
       /\ probe.pushed <=> (titles # <<>> /\ bodies # <<>>)

\* C29: an extracted article's publishedAt is the date parsed from the page
\* when the date string the page exposes can be parsed, and the crawl time
\* when it exposes none or one that cannot be parsed; it is always a valid
\* timestamp.
C29_PublishedAtValid ==
  probe.pushed =>
    LET exposed == NewDate(DateStrFrom(probe.page.dates, 1))
    IN /\ probe.article.publishedAt.valid
       /\ probe.article.publishedAt = IF exposed.valid THEN exposed ELSE CrawlTime

\* createNews has written the blob and is awaiting the insert of its record.
InsertPending(key) ==
  \E c \in Cycles : pc[c] = "save" /\ contentKey[c] = key

\* Blobs no record points to and no insert in progress is about to point to.
Unreferenced ==
  { key \in 1..Len(blobs) :
      /\ \A k \in 1..Len(db) : db[k].contentKey # key
      /\ ~InsertPending(key) }

\* The step is an insert that failed after its blob write succeeded.
FailedInsertOf(key) ==
  \E c \in Cycles :
    /\ pc[c] = "save"
    /\ contentKey[c] = key
    /\ pc'[c] = "finally"
    /\ db' = db

\* C30: the crawl path never deletes or overwrites a blob, and a blob
\* becomes unreferenced only in a step where the insert of its record fails
\* after the blob write succeeded; it then stays in the content store.
C30_BlobsOnlyOrphanedByFailedInsert ==
  [][/\ Len(blobs') >= Len(blobs)
     /\ \A key \in 1..Len(blobs) : blobs'[key] = blobs[key]
     /\ \A key \in 1..Len(blobs') :
          (key \in Unreferenced' /\ key \notin Unreferenced) => FailedInsertOf(key)
    ]_vars

\* A cycle has returned and left behind a blob that no record points to.
C30_Witness ==
  /\ Unreferenced # {}
  /\ \E c \in Cycles : pc[c] = "returned" /\ contentKey[c] \in Unreferenced

\* What getFullContent(id) is to answer: the blob under the record's
\* contentKey, or an error when reading it failed; else the inline content;
\* else the placeholder; an error for an unknown id.
Answers(outcome) ==
  LET id == outcome.id
  IN IF id \notin 1..Len(db) THEN outcome.threw
     ELSE IF db[id].contentKey # 0
          THEN outcome.threw \/ outcome.text = blobs[db[id].contentKey]
     ELSE IF db[id].content # ""
          THEN ~outcome.threw /\ outcome.text = db[id].content
     ELSE ~outcome.threw /\ outcome.text = "No content available"

\* C31: getFullContent(id) returns the blob stored under the record's
\* contentKey when it has one, the inline content when it has none but has
\* inline content, the placeholder when it has neither, and raises an error
\* for an unknown id or a failed blob read.
C31_FullContentSource ==
  [][(reply' # reply /\ reply'.op = "getFullContent") => Answers(reply'.result)]_vars

\* The inline content of a legacy record was returned after a cycle had
\* stored an article of its own.
C31_Witness ==
  /\ reply = [op |-> "getFullContent", result |-> Returned(1, "b1")]
  /\ Len(db) = 3
  /\ db[1].contentKey = 0
  /\ db[3].contentKey # 0

\* C32: the candidate list handed to the persist loop never contains the
\* same resolved url twice, so createNews is invoked at most once per url in
\* a cycle.
C32_CandidateUrlsDistinct ==
  \A c \in Cycles :
    \A i, j \in 1..Len(found[c]) :
      i # j => found[c][i].url # found[c][j].url

\* C33: for the same body text createNews and the migration script store the
\* same inline excerpt: two records with a contentKey and the same body have
\* the same inline content, whichever path wrote them.
C33_PathsAgreeOnExcerpt ==
  \A j, k \in 1..Len(db) :
    (/\ db[j].contentKey # 0
     /\ db[k].contentKey # 0
     /\ db[j].body = db[k].body) => db[j].content = db[k].content

\* The step is a failure while migrating one document: the upload or the
\* update threw.
MigrationFailure == mig.pc \in {"loop", "update"} /\ faults' > faults

\* C34: in the migration script a failure while migrating one record is
\* counted as an error, leaves the records as they were (a record whose
\* upload failed keeps its inline content and gets no contentKey) and does
\* not stop the remaining records: every selected record has been migrated
\* or counted as an error when the script exits.
C34_MigrationFailureIsLocal ==
  /\ [](mig.pc = "exited" =>
          mig.migratedCount + mig.errorCount = Len(mig.selected))
  /\ [][MigrationFailure =>
          /\ mig'.errorCount = mig.errorCount + 1
          /\ mig'.migratedCount = mig.migratedCount
          /\ mig'.i = mig.i + 1
          /\ db' = db]_vars

\* The upload of the first of two legacy records failed; the script went on,
\* migrated the second and exited, the first being as it was.
C34_Witness ==
  /\ mig.pc = "exited"
  /\ mig.runs = 1
  /\ mig.errorCount = 1
  /\ mig.migratedCount = 1
  /\ Len(db) = 2
  /\ db[1].contentKey = 0 /\ db[1].content = db[1].body
  /\ db[2].contentKey # 0
  /\ Len(blobs) = 1

\* C35: a crawl cycle over finitely many discovered links always terminates:
\* when every awaited call returns or fails, every started crawlAllSources
\* reaches its finally block and then settles, whatever faults occur.
C35_CycleTerminates ==
  /\ \A c \in Cycles : Running(c) ~> Settled(c)
  /\ [][\A c \in Cycles :
          (~Settled(c) /\ Settled(c)') =>
            /\ pc[c] \in {"finally", "finallyNull"}
            /\ pc'[c] = "threw" => (pc[c] = "finally" /\ faults' > faults)]_vars

\* A cycle that met a fault on its way has returned.
C35_Witness ==
  \E c \in Cycles : pc[c] = "returned" /\ faults >= 1 /\ found[c] # <<>>

====
